---- MODULE Spec2Model ----
(***************************************************************************)
(* A model of task-glitch: the analytics functions of src/utils/logic.ts   *)
(* and the two task stores (the useTasks hook and the TasksProvider        *)
(* context).                                                               *)
(*                                                                         *)
(* Numbers.  A JavaScript number is modelled as a record                   *)
(*   [k |-> "fin", n |-> numerator, d |-> denominator > 0]  (in lowest      *)
(*   terms), or the same record shape with k = "nan" | "inf" | "ninf".     *)
(* Finite arithmetic is exact rational arithmetic; the special values      *)
(* follow IEEE-754 (signed zeros are not distinguished).                   *)
(*                                                                         *)
(* Time.  Timestamps are whole hours since 1970-01-01T00:00Z, so that a    *)
(* day has HoursPerDay units where the source has 86400000 ms.             *)
(***************************************************************************)
EXTENDS Integers, Sequences, FiniteSets, Bags, TLC

VARIABLES
    impl,         \* store: "hook" (useTasks) or "provider" (TasksProvider)
    tasks,        \* store: useState<Task[]>
    lastDeleted,  \* store: useState<Task | null>, <<>> is null
    undoCb,       \* store: the lastDeleted captured by the rendered undoDelete
    clock,        \* store: the wall clock read by new Date()
    nextId,       \* store: the next value crypto.randomUUID() returns
    arg,          \* function harness: the argument of the call
    ret,          \* function harness: <<>> before the call, <<value>> after
    pc            \* function harness: "call" | "done"

vars == <<impl, tasks, lastDeleted, undoCb, clock, nextId, arg, ret, pc>>

storeVars == <<impl, tasks, lastDeleted, undoCb, clock, nextId>>

(* The store is idle while a function of logic.ts is exercised. *)
StoreIdle ==
    /\ impl = "none"
    /\ tasks = <<>>
    /\ lastDeleted = <<>>
    /\ undoCb = <<>>
    /\ clock = 0
    /\ nextId = 0

(* ------------------------------ bounds --------------------------------- *)

MaxNum == 8

MaxMetricTasks == 2

MaxSortLen == 3

MaxCreatedAt == 2

MaxVelocityTasks == 3

MaxWeeks == 4

MaxWeeklyRevenue == 3

MaxHorizon == 2

FirstYear == 2019

LastYear == 2027

MaxThroughputTasks == 2

MaxTasks == 2

MaxClock == 1

MaxUuid == 2

(* --------------------------- program constants ------------------------- *)

(* 24 * 60 * 60 * 1000 ms, in the model's unit of one hour *)
HoursPerDay == 24

(* computeForecast(weekly, horizonWeeks = 4) *)
DefaultHorizonWeeks == 4

(* ------------------------------ numbers -------------------------------- *)

Abs(i) == IF i < 0 THEN 0 - i ELSE i

Sign(i) == IF i < 0 THEN 0 - 1 ELSE IF i > 0 THEN 1 ELSE 0

RECURSIVE Gcd(_, _)
Gcd(a, b) == IF b = 0 THEN a ELSE Gcd(b, a % b)

(* The finite number n/d, d # 0, in lowest terms with a positive denominator. *)
Fin(n, d) ==
    LET g == Gcd(Abs(n), Abs(d))
        s == Sign(d)
    IN  [k |-> "fin", n |-> (s * n) \div g, d |-> Abs(d) \div g]

Int2Num(i) == Fin(i, 1)

NaN == [k |-> "nan", n |-> 0, d |-> 1]

PInf == [k |-> "inf", n |-> 1, d |-> 1]

NInf == [k |-> "ninf", n |-> 0 - 1, d |-> 1]

Zero == Int2Num(0)

(* Number.isFinite *)
IsFinite(x) == x.k = "fin"

(* the sign of a number that is not NaN *)
NumSign(x) == Sign(x.n)

SignedInf(s) == IF s > 0 THEN PInf ELSE NInf

(* a + b *)
NumAdd(a, b) ==
    IF a.k = "nan" \/ b.k = "nan" THEN NaN
    ELSE IF IsFinite(a) /\ IsFinite(b) THEN Fin(a.n * b.d + b.n * a.d, a.d * b.d)
    ELSE IF IsFinite(a) THEN b
    ELSE IF IsFinite(b) THEN a
    ELSE IF a.k = b.k THEN a ELSE NaN

(* a * b *)
NumMul(a, b) ==
    IF a.k = "nan" \/ b.k = "nan" THEN NaN
    ELSE IF IsFinite(a) /\ IsFinite(b) THEN Fin(a.n * b.n, a.d * b.d)
    ELSE IF NumSign(a) * NumSign(b) = 0 THEN NaN
    ELSE SignedInf(NumSign(a) * NumSign(b))

(* a - b *)
NumSub(a, b) == NumAdd(a, NumMul(Int2Num(0 - 1), b))

(* a / b *)
NumDiv(a, b) ==
    IF a.k = "nan" \/ b.k = "nan" THEN NaN
    ELSE IF IsFinite(a) /\ IsFinite(b)
         THEN IF b.n # 0 THEN Fin(a.n * b.d, a.d * b.n)
              ELSE IF a.n = 0 THEN NaN ELSE SignedInf(NumSign(a))
    ELSE IF IsFinite(a) THEN Zero
    ELSE IF IsFinite(b) THEN SignedInf(NumSign(a) * (IF b.n < 0 THEN 0 - 1 ELSE 1))
    ELSE NaN

(* a <= b; false when either is NaN *)
NumLeq(a, b) ==
    /\ a.k # "nan"
    /\ b.k # "nan"
    /\ \/ a.k = "ninf"
       \/ b.k = "inf"
       \/ IsFinite(a) /\ IsFinite(b) /\ a.n * b.d <= b.n * a.d

(* ToBoolean of a number: 0 and NaN are falsy *)
Truthy(x) == ~(x.k = "nan" \/ (IsFinite(x) /\ x.n = 0))

(* Math.max(a, b) *)
NumMax(a, b) ==
    IF a.k = "nan" \/ b.k = "nan" THEN NaN
    ELSE IF NumLeq(a, b) THEN b ELSE a

RECURSIVE IsPowerOfTwo(_)
IsPowerOfTwo(d) == d = 1 \/ (d % 2 = 0 /\ IsPowerOfTwo(d \div 2))

(* Number(x.toFixed(2)): the values the call can return.  toFixed picks the *)
(* integer h with h/100 nearest to the double x and the larger h on a tie. *)
(* A quotient with a power-of-two denominator is its double exactly; a tie *)
(* of any other quotient is no tie of its double, which lies on either     *)
(* side of it.  NaN and the infinities print and parse back as themselves. *)
ToFixed2(x) ==
    IF ~IsFinite(x) THEN {x}
    ELSE LET a == Abs(x.n) * 100
             q == a \div x.d
             r == a % x.d
             s == Sign(x.n)
         IN  IF 2 * r < x.d THEN {Fin(s * q, 100)}
             ELSE IF 2 * r > x.d THEN {Fin(s * (q + 1), 100)}
             ELSE IF IsPowerOfTwo(x.d) THEN {Fin(s * (q + 1), 100)}
             ELSE {Fin(s * q, 100), Fin(s * (q + 1), 100)}

(* --------------------------- ROI (logic.ts) ---------------------------- *)

(* computeROI with the guard of line 6 left out *)
computeROI_unguarded(revenue, timeTaken) ==
    ToFixed2(NumDiv(revenue, timeTaken))

(* computeROI: the values the call can return *)
computeROI(revenue, timeTaken) ==
    IF ~IsFinite(revenue) \/ ~IsFinite(timeTaken) \/ NumLeq(timeTaken, Zero)
    THEN {Zero}
    ELSE ToFixed2(NumDiv(revenue, timeTaken))

(* The numbers computeROI is called with. *)
RoiInputs ==
    {NaN, PInf, NInf}
        \cup {Int2Num(i) : i \in (0 - MaxNum)..MaxNum}
        \cup {Int2Num(100), Int2Num(40), Fin(1, 2), Fin(0 - 1, 2), Fin(1, 4)}

InitROI ==
    /\ StoreIdle
    /\ arg \in [revenue : RoiInputs, timeTaken : RoiInputs]
    /\ ret = <<>>
    /\ pc = "call"

CallComputeROI ==
    /\ pc = "call"
    /\ \E v \in computeROI(arg.revenue, arg.timeTaken) : ret' = <<v>>
    /\ pc' = "done"
    /\ UNCHANGED <<arg, storeVars>>

SpecROI == InitROI /\ [][CallComputeROI]_vars

(* the integer h with v = h/100, for a v that has at most 2 decimals *)
Hundredths(v) == v.n * (100 \div v.d)

(* C2: computeROI returns 0 when timeTaken <= 0 or when either argument is *)
(* not finite; otherwise it returns a number of at most 2 decimals that is *)
(* nearest to revenue / timeTaken (at most 0.005 away from it);            *)
(* computeROI(100, 4) = 25 and computeROI(0, 5) = 0.                       *)
C2_ComputeROI ==
    pc = "done" =>
        LET r == arg.revenue
            t == arg.timeTaken
            v == ret[1]
        IN  /\ (r.k # "fin" \/ t.k # "fin") => v = Zero
            /\ (r.k = "fin" /\ t.k = "fin" /\ t.n <= 0) => v = Zero
            /\ (r.k = "fin" /\ t.k = "fin" /\ t.n > 0) =>
                   /\ v.k = "fin"
                   /\ 100 % v.d = 0
                   /\ 2 * Abs(100 * r.n * t.d - Hundredths(v) * r.d * t.n)
                          <= r.d * t.n
            /\ (r = Int2Num(100) /\ t = Int2Num(4)) => v = Int2Num(25)
            /\ (r = Int2Num(0) /\ t = Int2Num(5)) => v = Int2Num(0)

(* C2 witness: 2 / 3 has been rounded up to 0.67 *)
C2_Witness ==
    /\ pc = "done"
    /\ arg = [revenue |-> Int2Num(2), timeTaken |-> Int2Num(3)]
    /\ ret = <<Fin(67, 100)>>

(* ------------------------- core metrics (logic.ts) --------------------- *)

Status == {"Todo", "In Progress", "Done"}

Priority == {"High", "Medium", "Low"}

(* tasks.filter(t => t.status === 'Done').reduce((s, t) => s + t.revenue, 0) *)
RECURSIVE computeTotalRevenue(_)
computeTotalRevenue(ts) ==
    IF ts = <<>> THEN Zero
    ELSE LET n == Len(ts)
             s == computeTotalRevenue(SubSeq(ts, 1, n - 1))
         IN  IF ts[n].status = "Done" THEN NumAdd(s, ts[n].revenue) ELSE s

(* tasks.reduce((s, t) => s + t.timeTaken, 0) *)
RECURSIVE computeTotalTimeTaken(_)
computeTotalTimeTaken(ts) ==
    IF ts = <<>> THEN Zero
    ELSE LET n == Len(ts)
         IN  NumAdd(computeTotalTimeTaken(SubSeq(ts, 1, n - 1)), ts[n].timeTaken)

(* computeRevenuePerHour: the values the call can return *)
computeRevenuePerHour(ts) ==
    LET time == computeTotalTimeTaken(ts)
    IN  IF Truthy(time) THEN ToFixed2(NumDiv(computeTotalRevenue(ts), time))
        ELSE {Zero}

(* tasks.reduce((s, t) => s + computeROI(t.revenue, t.timeTaken), 0): the  *)
(* sums the reduction can reach                                            *)
RECURSIVE SumROI(_)
SumROI(ts) ==
    IF ts = <<>> THEN {Zero}
    ELSE LET n == Len(ts)
         IN  {NumAdd(s, v) : s \in SumROI(SubSeq(ts, 1, n - 1)),
                             v \in computeROI(ts[n].revenue, ts[n].timeTaken)}

(* computeAverageROI: the values the call can return *)
computeAverageROI(ts) ==
    IF Len(ts) = 0 THEN {Zero}
    ELSE UNION {ToFixed2(NumDiv(s, Int2Num(Len(ts)))) : s \in SumROI(ts)}

(* sequences over S of length 0..n *)
SeqsUpTo(S, n) == UNION {[1..m -> S] : m \in 0..n}

MetricNums == {NaN, PInf, NInf, Int2Num(0 - 2), Zero, Int2Num(1), Int2Num(3)}

MetricTasks == [revenue : MetricNums, timeTaken : MetricNums, status : Status]

InitMetrics ==
    /\ StoreIdle
    /\ arg \in SeqsUpTo(MetricTasks, MaxMetricTasks)
    /\ ret = <<>>
    /\ pc = "call"

CallComputeAverageROI ==
    /\ pc = "call"
    /\ \E v \in computeAverageROI(arg) : ret' = <<[fn |-> "computeAverageROI", value |-> v]>>
    /\ pc' = "done"
    /\ UNCHANGED <<arg, storeVars>>

CallComputeRevenuePerHour ==
    /\ pc = "call"
    /\ \E v \in computeRevenuePerHour(arg) :
           ret' = <<[fn |-> "computeRevenuePerHour", value |-> v]>>
    /\ pc' = "done"
    /\ UNCHANGED <<arg, storeVars>>

NextMetrics == CallComputeAverageROI \/ CallComputeRevenuePerHour

SpecMetrics == InitMetrics /\ [][NextMetrics]_vars

(* C5: for every task list, malformed tasks included, computeAverageROI    *)
(* and computeRevenuePerHour return a finite number.                       *)
C5_AggregatesFinite == pc = "done" => IsFinite(ret[1].value)


(* --------------------------- sorting (logic.ts) ------------------------ *)

computePriorityWeight(priority) ==
    IF priority = "High" THEN 3 ELSE IF priority = "Medium" THEN 2 ELSE 1

(* the comparator with its last return replaced by 0: no createdAt tie-break *)
compareTasks_noTieBreak(a, b) ==
    IF b.roi # a.roi THEN b.roi - a.roi
    ELSE IF b.priorityWeight # a.priorityWeight
         THEN b.priorityWeight - a.priorityWeight
         ELSE 0

(* the comparator handed to sort: negative when a goes first.  roi is in   *)
(* hundredths, createdAt is new Date(createdAt).getTime()                  *)
compareTasks(a, b) ==
    IF b.roi # a.roi THEN b.roi - a.roi
    ELSE IF b.priorityWeight # a.priorityWeight
         THEN b.priorityWeight - a.priorityWeight
         ELSE a.createdAt - b.createdAt

(* x put into the sorted sequence s behind every element that does not     *)
(* compare greater than it                                                 *)
RECURSIVE InsertSorted(_, _)
InsertSorted(s, x) ==
    IF s = <<>> THEN <<x>>
    ELSE IF compareTasks(s[Len(s)], x) > 0
         THEN Append(InsertSorted(SubSeq(s, 1, Len(s) - 1), x), s[Len(s)])
         ELSE Append(s, x)

(* [...tasks].sort(comparator): Array.prototype.sort is a stable sort *)
RECURSIVE sortTasks(_)
sortTasks(ts) ==
    IF ts = <<>> THEN <<>>
    ELSE InsertSorted(sortTasks(SubSeq(ts, 1, Len(ts) - 1)), ts[Len(ts)])

DerivedTasks ==
    [roi : {0, 125},
     priorityWeight : {computePriorityWeight(p) : p \in Priority},
     createdAt : 1..MaxCreatedAt]

InitSort ==
    /\ StoreIdle
    /\ arg \in SeqsUpTo(DerivedTasks, MaxSortLen)
    /\ ret = <<>>
    /\ pc = "call"

CallSortTasks ==
    /\ pc = "call"
    /\ ret' = <<sortTasks(arg)>>
    /\ pc' = "done"
    /\ UNCHANGED <<arg, storeVars>>

SpecSort == InitSort /\ [][CallSortTasks]_vars

(* the bag of the elements of a sequence *)
BagOf(s) == [x \in {s[i] : i \in DOMAIN s} |-> Cardinality({i \in DOMAIN s : s[i] = x})]

(* C1: sortTasks returns a permutation of its input in which every adjacent *)
(* pair A, B has A.roi > B.roi, or equal rois and A.priorityWeight >        *)
(* B.priorityWeight, or both equal and A.createdAt <= B.createdAt; and two  *)
(* input tasks with equal roi and priorityWeight and A.createdAt <          *)
(* B.createdAt come out A before B, whatever the order of the input.        *)
C1_SortTasks ==
    pc = "done" =>
        LET out == ret[1]
        IN  /\ BagOf(out) = BagOf(arg)
            /\ \A i \in 1..(Len(out) - 1) :
                   LET A == out[i]
                       B == out[i + 1]
                   IN  \/ A.roi > B.roi
                       \/ A.roi = B.roi /\ A.priorityWeight > B.priorityWeight
                       \/ /\ A.roi = B.roi
                          /\ A.priorityWeight = B.priorityWeight
                          /\ A.createdAt <= B.createdAt
            /\ \A i, j \in DOMAIN out :
                   (/\ out[i].roi = out[j].roi
                    /\ out[i].priorityWeight = out[j].priorityWeight
                    /\ out[i].createdAt < out[j].createdAt) => i < j

(* C1 witness: the input held the later-created of two tied tasks first,   *)
(* and the output holds the earlier-created first                          *)
C1_Witness ==
    /\ pc = "done"
    /\ Len(arg) = 2
    /\ arg[1].roi = arg[2].roi
    /\ arg[1].priorityWeight = arg[2].priorityWeight
    /\ arg[1].createdAt > arg[2].createdAt
    /\ ret[1] = <<arg[2], arg[1]>>


(* ------------------------ cycle time (logic.ts) ------------------------ *)

(* Math.round of the quotient num / den, den > 0: halves go up *)
MathRound(num, den) == (2 * num + den) \div (2 * den)

Max(a, b) == IF a >= b THEN a ELSE b

daysBetween(a, b) == Max(0, MathRound(b - a, HoursPerDay))

(* x put into the ascending sequence s *)
RECURSIVE InsertAscending(_, _)
InsertAscending(s, x) ==
    IF s = <<>> THEN <<x>>
    ELSE IF s[Len(s)] - x > 0
         THEN Append(InsertAscending(SubSeq(s, 1, Len(s) - 1), x), s[Len(s)])
         ELSE Append(s, x)

(* arr.sort((a, b) => a - b) *)
RECURSIVE SortAscending(_)
SortAscending(s) ==
    IF s = <<>> THEN <<>>
    ELSE InsertAscending(SortAscending(SubSeq(s, 1, Len(s) - 1)), s[Len(s)])

RECURSIVE SumSeq(_)
SumSeq(s) == IF s = <<>> THEN 0 ELSE SumSeq(SubSeq(s, 1, Len(s) - 1)) + s[Len(s)]

(* the durations pushed to groups[p] by the forEach over the tasks *)
RECURSIVE GroupDurations(_, _)
GroupDurations(ts, p) ==
    IF ts = <<>> THEN <<>>
    ELSE LET n == Len(ts)
             t == ts[n]
             rest == GroupDurations(SubSeq(ts, 1, n - 1), p)
         IN  IF t.completedAt # <<>> /\ t.priority = p
             THEN Append(rest, daysBetween(t.createdAt, t.completedAt[1]))
             ELSE rest

(* the lower-middle element: index floor((n - 1) / 2) *)
medianDays_lower(arr) ==
    IF Len(arr) > 0 THEN arr[((Len(arr) - 1) \div 2) + 1] ELSE 0

(* arr.length ? arr[Math.floor(arr.length / 2)] : 0 *)
medianDays(arr) ==
    IF Len(arr) > 0 THEN arr[(Len(arr) \div 2) + 1] ELSE 0

(* arr.length ? arr.reduce((s, v) => s + v, 0) / arr.length : 0 *)
avgDays(arr) ==
    IF Len(arr) > 0 THEN NumDiv(Int2Num(SumSeq(arr)), Int2Num(Len(arr))) ELSE Zero

computeVelocityByPriority(ts) ==
    [p \in Priority |->
        LET arr == SortAscending(GroupDurations(ts, p))
        IN  [avgDays |-> avgDays(arr), medianDays |-> medianDays(arr)]]

VelocityTasks ==
    [priority : Priority,
     createdAt : {0, 60},
     completedAt : {<<>>, <<12>>, <<48>>, <<108>>}]

InitVelocity ==
    /\ StoreIdle
    /\ arg \in SeqsUpTo(VelocityTasks, MaxVelocityTasks)
    /\ ret = <<>>
    /\ pc = "call"

CallComputeVelocityByPriority ==
    /\ pc = "call"
    /\ ret' = <<computeVelocityByPriority(arg)>>
    /\ pc' = "done"
    /\ UNCHANGED <<arg, storeVars>>

SpecVelocity == InitVelocity /\ [][CallComputeVelocityByPriority]_vars

(* the tasks of the argument that count for priority p *)
Completed(p) == {i \in DOMAIN arg : arg[i].priority = p /\ arg[i].completedAt # <<>>}

(* max(0, whole days rounded) between creation and completion of task i:   *)
(* the integer r nearest to the quotient (halves up), floored at 0         *)
WholeDays(i) ==
    LET h == arg[i].completedAt[1] - arg[i].createdAt
        r == CHOOSE k \in (0 - 10)..10 :
                 HoursPerDay * (2 * k - 1) <= 2 * h /\ 2 * h < HoursPerDay * (2 * k + 1)
    IN  IF r < 0 THEN 0 ELSE r

RECURSIVE SumWholeDays(_)
SumWholeDays(I) ==
    IF I = {} THEN 0
    ELSE LET i == CHOOSE j \in I : TRUE IN WholeDays(i) + SumWholeDays(I \ {i})

(* C7: per priority bucket, only tasks of that priority with a completedAt *)
(* count, each with max(0, whole days rounded); avgDays is their mean and  *)
(* medianDays the element at index floor(n/2) of the ascending durations   *)
(* (as many as floor(n/2) or fewer are smaller, more than floor(n/2) are   *)
(* smaller or equal); both are 0 for an empty bucket.                      *)
C7_VelocityByPriority ==
    pc = "done" =>
        \A p \in Priority :
            LET I == Completed(p)
                n == Cardinality(I)
                r == ret[1][p]
            IN  /\ n = 0 => r.avgDays = Zero /\ r.medianDays = 0
                /\ n > 0 =>
                       /\ r.avgDays.k = "fin"
                       /\ r.avgDays.n * n = SumWholeDays(I) * r.avgDays.d
                       /\ \E i \in I : WholeDays(i) = r.medianDays
                       /\ Cardinality({i \in I : WholeDays(i) < r.medianDays}) <= n \div 2
                       /\ Cardinality({i \in I : WholeDays(i) <= r.medianDays}) > n \div 2

(* C7 witness: a High bucket of two completed tasks of 1 and 5 days beside *)
(* an incomplete High task: the median is the upper-middle 5, the mean 3   *)
C7_Witness ==
    /\ pc = "done"
    /\ Len(arg) = 3
    /\ \A i \in DOMAIN arg : arg[i].priority = "High" /\ arg[i].createdAt = 0
    /\ {arg[i].completedAt : i \in DOMAIN arg} = {<<>>, <<12>>, <<108>>}
    /\ ret[1]["High"] = [avgDays |-> Int2Num(3), medianDays |-> 5]
    /\ ret[1]["Low"] = [avgDays |-> Zero, medianDays |-> 0]


(* ------------------------- forecast (logic.ts) ------------------------- *)

(* x.reduce((s, v, i) => s + f(v, i), 0) over x = 0..n-1, f given as the   *)
(* sequence of its values                                                  *)
RECURSIVE NumSum(_)
NumSum(s) ==
    IF s = <<>> THEN Zero ELSE NumAdd(NumSum(SubSeq(s, 1, Len(s) - 1)), s[Len(s)])

(* a || 1 *)
OrOne(a) == IF Truthy(a) THEN a ELSE Int2Num(1)

(* the future x-value one further than the source's: x.length + i + 1 *)
futureX_offByOne(n, i) == n + i + 1

(* the x-value of the i-th forecast point: x.length + i *)
futureX(n, i) == n + i

computeForecast(weekly, horizonWeeks) ==
    IF Len(weekly) < 2 THEN <<>>
    ELSE LET y == [i \in 1..Len(weekly) |-> weekly[i].revenue]
             x == [i \in 1..Len(weekly) |-> Int2Num(i - 1)]
             n == Int2Num(Len(x))
             sumX == NumSum(x)
             sumY == NumSum(y)
             sumXY == NumSum([i \in 1..Len(x) |-> NumMul(x[i], y[i])])
             sumXX == NumSum([i \in 1..Len(x) |-> NumMul(x[i], x[i])])
             slope == NumDiv(NumSub(NumMul(n, sumXY), NumMul(sumX, sumY)),
                             OrOne(NumSub(NumMul(n, sumXX), NumMul(sumX, sumX))))
             intercept == NumDiv(NumSub(sumY, NumMul(slope, sumX)), n)
             h == IF horizonWeeks = <<>> THEN DefaultHorizonWeeks ELSE horizonWeeks[1]
         IN  [j \in 1..h |->
                 [week |-> "+" \o ToString(j),
                  revenue |-> NumMax(Zero,
                      NumAdd(NumMul(slope, Int2Num(futureX(Len(x), j - 1))), intercept))]]

(* the weekly series with the given revenues *)
Weekly(revs) == [i \in 1..Len(revs) |-> [week |-> "w" \o ToString(i), revenue |-> Int2Num(revs[i])]]

ForecastArgs ==
    {[weekly |-> Weekly(revs), horizonWeeks |-> h] :
        revs \in SeqsUpTo((0 - 1)..MaxWeeklyRevenue, MaxWeeks) \cup {<<10, 20, 30>>},
        h \in {<<>>} \cup {<<k>> : k \in 0..MaxHorizon}}

InitForecast ==
    /\ StoreIdle
    /\ arg \in ForecastArgs
    /\ ret = <<>>
    /\ pc = "call"

CallComputeForecast ==
    /\ pc = "call"
    /\ ret' = <<computeForecast(arg.weekly, arg.horizonWeeks)>>
    /\ pc' = "done"
    /\ UNCHANGED <<arg, storeVars>>

SpecForecast == InitForecast /\ [][CallComputeForecast]_vars

DayOf(ts) == ts \div HoursPerDay

(* the leap years among the years 1..y-1 *)
LeapsBefore(y) == ((y - 1) \div 4) - ((y - 1) \div 100) + ((y - 1) \div 400)

(* Date.UTC(y, 0, date), as a day number *)
DateUTC(y, date) == 365 * (y - 1970) + (LeapsBefore(y) - LeapsBefore(1970)) + (date - 1)

(* d.getUTCFullYear() of the day *)
getUTCFullYear(day) ==
    CHOOSE y \in (FirstYear - 1)..(LastYear + 1) : DateUTC(y, 1) <= day /\ day < DateUTC(y + 1, 1)

(* d.getUTCDay() of the day: 0 is Sunday; 1970-01-01 was a Thursday *)
getUTCDay(day) == (day + 4) % 7

(* getWeekNumber(d): target is d's day moved to the Thursday of its week,  *)
(* firstThursday is January 4 of target's year                            *)
getWeekNumber(day) ==
    LET dayNr == (getUTCDay(day) + 6) % 7
        target == day - dayNr + 3
        firstThursday == DateUTC(getUTCFullYear(target), 4)
    IN  1 + MathRound(target - firstThursday, 7)

(* `${d.getUTCFullYear()}-W${getWeekNumber(d)}` *)
weekKey(completedAt) ==
    LET d == DayOf(completedAt)
    IN  ToString(getUTCFullYear(d)) \o "-W" \o ToString(getWeekNumber(d))

(* the Map after the forEach, as its entries in insertion order *)
RECURSIVE ThroughputMap(_)
ThroughputMap(ts) ==
    IF ts = <<>> THEN <<>>
    ELSE LET n == Len(ts)
             t == ts[n]
             map == ThroughputMap(SubSeq(ts, 1, n - 1))
         IN  IF t.completedAt = <<>> THEN map
             ELSE LET week == weekKey(t.completedAt[1])
                  IN  IF \E i \in DOMAIN map : map[i].week = week
                      THEN [i \in DOMAIN map |->
                               IF map[i].week = week
                               THEN [week |-> week,
                                     count |-> map[i].count + 1,
                                     revenue |-> map[i].revenue + t.revenue]
                               ELSE map[i]]
                      ELSE Append(map, [week |-> week, count |-> 1, revenue |-> t.revenue])

computeThroughputByWeek(ts) == ThroughputMap(ts)

(* the days within 4 days of a January 1, and three days in mid-year *)
ThroughputDays ==
    UNION {(DateUTC(y, 1) - 4)..(DateUTC(y, 1) + 4) : y \in (FirstYear + 1)..LastYear}
        \cup {DateUTC(FirstYear, 180) + k : k \in 0..2}

ThroughputTasks ==
    [completedAt : {<<>>} \cup {<<HoursPerDay * d + h>> : d \in ThroughputDays, h \in {0, 23}},
     revenue : {5}]

InitThroughput ==
    /\ StoreIdle
    /\ arg \in SeqsUpTo(ThroughputTasks, MaxThroughputTasks)
    /\ ret = <<>>
    /\ pc = "call"

CallComputeThroughputByWeek ==
    /\ pc = "call"
    /\ ret' = <<computeThroughputByWeek(arg)>>
    /\ pc' = "done"
    /\ UNCHANGED <<arg, storeVars>>

SpecThroughput == InitThroughput /\ [][CallComputeThroughputByWeek]_vars

(* ISO-8601: the Monday that starts the Monday-to-Sunday week of a day *)
IsoMonday(day) == day - ((day + 3) % 7)

(* ISO-8601: the week-year is the calendar year of the week's Thursday, the *)
(* week number counts the Thursdays of that year                           *)
IsoWeekYear(day) == getUTCFullYear(IsoMonday(day) + 3)

IsoWeekNumber(day) == ((IsoMonday(day) + 3 - DateUTC(IsoWeekYear(day), 1)) \div 7) + 1

IsoKey(day) == ToString(IsoWeekYear(day)) \o "-W" \o ToString(IsoWeekNumber(day))

(* the completed tasks of the argument, with their UTC days *)
Done3 == {i \in DOMAIN arg : arg[i].completedAt # <<>>}

Day3(i) == DayOf(arg[i].completedAt[1])

(* C3: the buckets of computeThroughputByWeek are keyed by the ISO-8601     *)
(* week-year and week number of each completed task's UTC date, so that    *)
(* two completed tasks share a bucket exactly when their dates lie in the  *)
(* same Monday-to-Sunday week.                                             *)
C3_IsoWeekBuckets ==
    pc = "done" =>
        LET out == ret[1]
        IN  /\ {out[j].week : j \in DOMAIN out} = {IsoKey(Day3(i)) : i \in Done3}
            /\ \A j \in DOMAIN out :
                   out[j].count = Cardinality({i \in Done3 : IsoKey(Day3(i)) = out[j].week})
            /\ Len(out) = Cardinality({IsoMonday(Day3(i)) : i \in Done3})


(* ------------- the task stores (useTasks.ts, TasksProvider) ------------ *)
(* A stored task is [id, status, completedAt] with completedAt <<>> for     *)
(* undefined (title, revenue, timeTaken, priority, notes and createdAt are *)
(* copied by every handler and left out), and a history field that no      *)
(* handler reads: everDone, the task has had status Done.                  *)

Impls == {"hook", "provider"}

(* the ids handed out so far *)
KnownIds == 1..(nextId - 1)

(* input.id: absent, or an id already handed out *)
InputIds == {<<>>} \cup {<<i>> : i \in KnownIds}

TaskInputs == [id : InputIds, status : Status]

(* the patches of updateTask (Partial<Task>): each of id, status and        *)
(* completedAt is absent or given                                          *)
Patches ==
    [id : InputIds,
     status : {<<>>} \cup {<<st>> : st \in Status},
     completedAt : {<<>>, <<0>>}]

(* a record with its history field brought up to date *)
WithHistory(t, was) == [t EXCEPT !.everDone = was.everDone \/ t.status = "Done"]

NoHistory == [everDone |-> FALSE]

(* the task addTask appends; id is the id it has been given, now the clock *)
(* reading                                                                 *)
NewTask(input, id, now) ==
    LET t == [id |-> id,
              status |-> input.status,
              completedAt |-> IF input.status = "Done" THEN <<now>> ELSE <<>>,
              everDone |-> FALSE]
    IN  WithHistory(t, NoHistory)

(* useTasks.addTask: id is always a fresh UUID *)
AddTaskHook ==
    /\ impl = "hook"
    /\ Len(tasks) < MaxTasks
    /\ nextId <= MaxUuid
    /\ \E input \in TaskInputs : tasks' = Append(tasks, NewTask(input, nextId, clock))
    /\ nextId' = nextId + 1
    /\ UNCHANGED <<impl, lastDeleted, undoCb, clock, arg, ret, pc>>

(* TasksProvider.addTask: id is input.id ?? crypto.randomUUID() *)
AddTaskProvider ==
    /\ impl = "provider"
    /\ Len(tasks) < MaxTasks
    /\ \E input \in TaskInputs :
           IF input.id # <<>>
           THEN /\ tasks' = Append(tasks, NewTask(input, input.id[1], clock))
                /\ nextId' = nextId
           ELSE /\ nextId <= MaxUuid
                /\ tasks' = Append(tasks, NewTask(input, nextId, clock))
                /\ nextId' = nextId + 1
    /\ UNCHANGED <<impl, lastDeleted, undoCb, clock, arg, ret, pc>>

(* the completedAt of updateTask with the override left out: the patch's   *)
(* own completedAt wins                                                    *)
updatedCompletedAt_patchWins(which, t, patch, now) ==
    IF patch.completedAt # <<>> THEN patch.completedAt ELSE t.completedAt

(* the completedAt updateTask gives the matching task *)
updatedCompletedAt(which, t, patch, now) ==
    IF which = "hook"
    THEN IF patch.status = <<"Done">> /\ t.completedAt = <<>> THEN <<now>> ELSE t.completedAt
    ELSE IF t.status # "Done" /\ patch.status = <<"Done">> THEN <<now>> ELSE t.completedAt

(* { ...t, ...patch, completedAt: ... } *)
Patched(which, t, patch, now) ==
    LET u == [t EXCEPT !.id = IF patch.id # <<>> THEN patch.id[1] ELSE t.id,
                       !.status = IF patch.status # <<>> THEN patch.status[1] ELSE t.status,
                       !.completedAt = updatedCompletedAt(which, t, patch, now)]
    IN  WithHistory(u, t)

(* updateTask(id, patch): prev.map(t => t.id === id ? {...} : t) *)
UpdateTask ==
    /\ impl \in Impls
    /\ \E id \in KnownIds, patch \in Patches :
           tasks' = [i \in DOMAIN tasks |->
                        IF tasks[i].id = id THEN Patched(impl, tasks[i], patch, clock)
                        ELSE tasks[i]]
    /\ UNCHANGED <<impl, lastDeleted, undoCb, clock, nextId, arg, ret, pc>>

(* prev.find(t => t.id === id) ?? null *)
Find(ts, id) ==
    IF \E i \in DOMAIN ts : ts[i].id = id
    THEN <<ts[CHOOSE i \in DOMAIN ts : ts[i].id = id /\ \A j \in 1..(i - 1) : ts[j].id # id]>>
    ELSE <<>>

(* prev.filter(t => t.id !== id) *)
RECURSIVE Without(_, _)
Without(ts, id) ==
    IF ts = <<>> THEN <<>>
    ELSE LET n == Len(ts)
             rest == Without(SubSeq(ts, 1, n - 1), id)
         IN  IF ts[n].id # id THEN Append(rest, ts[n]) ELSE rest

(* deleteTask(id) *)
DeleteTask ==
    /\ impl \in Impls
    /\ \E id \in KnownIds :
           /\ lastDeleted' = Find(tasks, id)
           /\ tasks' = Without(tasks, id)
    /\ UNCHANGED <<impl, undoCb, clock, nextId, arg, ret, pc>>

(* undoDelete(): the callback reads the lastDeleted of the render that     *)
(* made it (useCallback(..., [lastDeleted]))                              *)
UndoDelete ==
    /\ impl \in Impls
    /\ IF undoCb # <<>>
       THEN /\ Len(tasks) < MaxTasks
            /\ tasks' = Append(tasks, undoCb[1])
            /\ lastDeleted' = <<>>
       ELSE UNCHANGED <<tasks, lastDeleted>>
    /\ UNCHANGED <<impl, undoCb, clock, nextId, arg, ret, pc>>

(* clearLastDeleted() *)
ClearLastDeleted ==
    /\ impl \in Impls
    /\ lastDeleted' = <<>>
    /\ UNCHANGED <<impl, tasks, undoCb, clock, nextId, arg, ret, pc>>

(* React renders the component again after a state change: undoDelete is   *)
(* made anew with the current lastDeleted                                  *)
Render ==
    /\ impl \in Impls
    /\ undoCb # lastDeleted
    /\ undoCb' = lastDeleted
    /\ UNCHANGED <<impl, tasks, lastDeleted, clock, nextId, arg, ret, pc>>

(* time passes *)
Tick ==
    /\ impl \in Impls
    /\ clock < MaxClock
    /\ clock' = clock + 1
    /\ UNCHANGED <<impl, tasks, lastDeleted, undoCb, nextId, arg, ret, pc>>

(* useState([]) and useState(null), before any handler has run *)
InitStore ==
    /\ impl \in Impls
    /\ tasks = <<>>
    /\ lastDeleted = <<>>
    /\ undoCb = <<>>
    /\ clock = 0
    /\ nextId = 1
    /\ arg = <<>>
    /\ ret = <<>>
    /\ pc = "store"

NextStore ==
    \/ AddTaskHook
    \/ AddTaskProvider
    \/ UpdateTask
    \/ DeleteTask
    \/ UndoDelete
    \/ ClearLastDeleted
    \/ Render
    \/ Tick

SpecStore == InitStore /\ [][NextStore]_vars

(* C4: once a task's completedAt has been set, no updateTask changes or     *)
(* clears it (a step that keeps the length of the list is an updateTask or *)
(* changes no task; addTask, deleteTask and undoDelete copy the records).  *)
C4_CompletedAtImmutable ==
    [][\A i \in DOMAIN tasks :
          (Len(tasks') = Len(tasks) /\ tasks[i].completedAt # <<>>) =>
              tasks'[i].completedAt = tasks[i].completedAt]_vars

(* C8: every task in the list has a completedAt exactly if it has had      *)
(* status Done: a Done task has one, a task that was never Done has none.  *)
C8_CompletedAtIffEverDone ==
    \A i \in DOMAIN tasks :
        /\ tasks[i].status = "Done" => tasks[i].completedAt # <<>>
        /\ tasks[i].completedAt # <<>> <=> tasks[i].everDone

(* C8 witness: a task that was Done and has been moved back keeps its      *)
(* completedAt, beside a task that never was Done and has none             *)
C8_Witness ==
    /\ Len(tasks) = 2
    /\ tasks[1].everDone /\ tasks[1].status = "In Progress" /\ tasks[1].completedAt # <<>>
    /\ ~tasks[2].everDone /\ tasks[2].status = "Todo" /\ tasks[2].completedAt = <<>>

(* C9: a deleteTask of an id in the list leaves exactly that task in       *)
(* lastDeleted; an undoDelete puts the task of lastDeleted back unchanged, *)
(* once, and sets lastDeleted to null; an undoDelete while lastDeleted is  *)
(* null changes nothing.                                                   *)
C9_UndoRestoresLastDeleted ==
    [][/\ \A id \in KnownIds :
             (/\ Find(tasks, id) # <<>>
              /\ tasks' = Without(tasks, id)
              /\ UNCHANGED <<undoCb, nextId, clock>>) => lastDeleted' = Find(tasks, id)
       /\ UndoDelete =>
             IF lastDeleted = <<>> THEN tasks' = tasks
             ELSE /\ tasks' = Append(tasks, lastDeleted[1])
                  /\ Cardinality({i \in DOMAIN tasks' : tasks'[i] = lastDeleted[1]}) = 1
                  /\ lastDeleted' = <<>>]_vars

(* C10: no two tasks in the list share an id. *)
C10_UniqueIds ==
    \A i, j \in DOMAIN tasks : i # j => tasks[i].id # tasks[j].id

====
